---- MODULE Spec2Model ----
(***************************************************************************)
(* Model of src/dsl/schema.go: loading a schema (NewSchema), validating it *)
(* (Validate) and evaluating one call/event result against it (EvalSave,   *)
(* EvalTransforms, EvalFilter, GenerateContextVars).                       *)
(*                                                                         *)
(* A Go map[string]cty.Value is a function whose domain is the keys of the *)
(* map.  Go pointers to hcl.EvalContext are indices into the heap ctxs;    *)
(* the package-level function table Functions is one variable, because     *)
(* every context is built with "Functions: Functions" and a Go map is      *)
(* shared by reference.                                                    *)
(***************************************************************************)
EXTENDS Integers, Sequences, FiniteSets, TLC

VARIABLES
    file,       \* confDir: schema.hcl as parsed, and whether the files can be read
    time,       \* the wall clock, in seconds
    s,          \* the *DynamicSchema NewSchema returned (s.loaded = FALSE: nil)
    loadErr,    \* the error NewSchema returned ("" for nil, "none" before the call)
    ctxs,       \* heap of hcl.EvalContext objects: sequence of Variables maps
    Functions,  \* the package-level function table every context refers to
    ret,        \* what the last call of Validate / EvalSave returned
    ev,         \* record of the last EvalSave call: its argument and what it decoded
    calls,      \* the EvalSave calls in flight on other goroutines, one per query name
    firsts      \* the first EvalSave call on the schema s refers to, and on the one before

vars == <<file, time, s, loadErr, ctxs, Functions, ret, ev, calls, firsts>>

----------------------------------------------------------------------------
(* Bounds of the model. *)

MaxQueries == 2     \* directly declared queries per schema
MaxContracts == 2   \* contract / global event blocks per query
MaxItems == 2       \* items of a loop block

----------------------------------------------------------------------------
(* cty values: <<tag, n>>.  Strings are numbered; an address string and    *)
(* its lower-case spelling are different strings of the same address.      *)

Absent == <<"absent", 0>>       \* what reading a key that is not in the map gives
NilVal == <<"nil", 0>>          \* cty.NilVal
DecodeErr == <<"err", 0>>       \* diags.HasErrors()
Num(n) == <<"num", n>>
Str(n) == <<"str", n>>
Bool(b) == <<"bool", IF b THEN 1 ELSE 0>>

\* common.Address values, and the strings that spell them
Addresses == {1, 2}
HexToAddress(str) == str % 10           \* lower-case spelling a+10, canonical a
AddressString(a) == a                   \* Address.String(): the canonical spelling

FuncNames == {"upper", "balance", "token_balance"}

EmptyMap == [k \in {} |-> Absent]

Keys(m) == DOMAIN m

Get(m, k) == IF k \in DOMAIN m THEN m[k] ELSE Absent

\* for k, v := range b { a[k] = v }
MergeInto(a, b) == [k \in DOMAIN a \cup DOMAIN b |-> IF k \in DOMAIN b THEN b[k] ELSE a[k]]

One(k, v) == [x \in {k} |-> v]

----------------------------------------------------------------------------
(* Expressions of the schema language, as far as the program sees them: an *)
(* expression evaluates against a context to a value or to a diagnostic.   *)

NoExpr == [op |-> "none", n |-> "", v |-> Absent]
Lit(v) == [op |-> "lit", n |-> "", v |-> v]
Var(n) == [op |-> "var", n |-> n, v |-> Absent]
Dbl(n) == [op |-> "dbl", n |-> n, v |-> Absent]          \* n * 2
Gt(n, k) == [op |-> "gt", n |-> n, v |-> Num(k)]         \* n > k
Bal == [op |-> "bal", n |-> "", v |-> Absent]            \* balance(...)
BalGt(k) == [op |-> "balgt", n |-> "", v |-> Num(k)]     \* balance(...) > k

\* the value a chain function bound to (chain, block) returns
BalanceAt(binding) == Num(100 * binding[2] + binding[3])

EvalExpr(e, variables, functions) ==
    CASE e.op = "lit" -> e.v
      [] e.op = "var" -> IF e.n \in DOMAIN variables THEN variables[e.n] ELSE DecodeErr
      [] e.op = "dbl" -> IF Get(variables, e.n)[1] = "num"
                            THEN Num(2 * variables[e.n][2]) ELSE DecodeErr
      [] e.op = "gt"  -> IF Get(variables, e.n)[1] = "num"
                            THEN Bool(variables[e.n][2] > e.v[2]) ELSE DecodeErr
      [] e.op = "bal" -> IF functions["balance"][1] = "chain"
                            THEN BalanceAt(functions["balance"]) ELSE DecodeErr
      [] e.op = "balgt" -> IF functions["balance"][1] = "chain"
                              THEN Bool(BalanceAt(functions["balance"])[2] > e.v[2])
                              ELSE DecodeErr
      [] OTHER -> DecodeErr

\* an hcl.Body of attributes: present = FALSE is the nil pointer / missing block
NoBody == [present |-> FALSE, attrs |-> EmptyMap]
Body(k, e) == [present |-> TRUE, attrs |-> One(k, e)]
EmptyBody == [present |-> TRUE, attrs |-> EmptyMap]

\* gohcl.DecodeBody(body, ctx, &mv) into a fresh map[string]cty.Value
DecodeBody(body, variables, functions) ==
    LET val(k) == EvalExpr(body.attrs[k], variables, functions)
    IN  IF \E k \in DOMAIN body.attrs : val(k) = DecodeErr
           THEN [err |-> TRUE, mv |-> EmptyMap]
           ELSE [err |-> FALSE, mv |-> [k \in DOMAIN body.attrs |-> val(k)]]

\* a filter attribute: a list of boolean expressions, or no filter (nil)
NoFilter == [present |-> FALSE, list |-> << >>]
Filter(list) == [present |-> TRUE, list |-> list]

\* hcldec.Decode(q.Filters, &filterspec, ctx) then gocty.FromCtyValue(v, &filters)
DecodeFilter(f, variables, functions) ==
    LET val(i) == EvalExpr(f.list[i], variables, functions)
    IN  IF \E i \in 1..Len(f.list) : val(i)[1] # "bool"
           THEN [err |-> TRUE, filters |-> << >>]
           ELSE [err |-> FALSE, filters |-> [i \in 1..Len(f.list) |-> val(i)[2] = 1]]

----------------------------------------------------------------------------
(* The schema file and the schema tree.                                    *)

\* a contract block of the file: the address is an expression until decoded
ContractBlock(address, methods, events, transforms) ==
    [Address_ |-> address, AbiOk |-> TRUE, Methods |-> methods, Events |-> events,
     Transforms |-> transforms]

\* a global event block
EventBlock(name, transforms) ==
    [Name_ |-> name, AbiOk |-> TRUE, Transforms |-> transforms]

QueryBlock(name, contracts, events, saves, filters) ==
    [Name |-> name, Chain |-> 1, Contracts |-> contracts, Events |-> events,
     Saves |-> saves, Filters |-> filters]

NoLoop == [present |-> FALSE, Items |-> << >>, Queries |-> << >>]

\* EventSchema.OutputName(): Name_ + "_events"; event names and identifiers
\* are numbered strings, the suffix maps name n to string 100 + n
OutputName(e) == 100 + e.Name_

\* ContractSchema.Address(): common.HexToAddress(c.Address_)
Address(c) == HexToAddress(c.Address_)

\* gohcl decoding one contract block into a ContractSchema against a context
DecodeContract(b, variables, functions) ==
    LET a == EvalExpr(b.Address_, variables, functions)
    IN  [err |-> a[1] # "str",
         c |-> [Address_ |-> IF a[1] = "str" THEN a[2] ELSE 0, AbiOk |-> b.AbiOk,
                Methods |-> b.Methods, Events |-> b.Events, Transforms |-> b.Transforms]]

\* gohcl decoding one query block into a QuerySchema; Transform, Save and
\* Filter stay undecoded bodies, the fields without an hcl tag stay zero
DecodeQuery(b, variables, functions) ==
    LET cs == [i \in 1..Len(b.Contracts) |-> DecodeContract(b.Contracts[i], variables, functions)]
    IN  [err |-> \E i \in 1..Len(cs) : cs[i].err,
         q |-> [Name |-> b.Name, Chain |-> b.Chain,
                ContractSchemas |-> [i \in 1..Len(cs) |-> cs[i].c],
                EventSchemas |-> b.Events,
                Saves |-> b.Saves, Filters |-> b.Filters,
                StartBlock |-> 0, EndBlock |-> 0, BlockInterval |-> 0,
                EvalContext |-> 0]]

\* decoding a list of query blocks (hcl:"query,block") against one context
DecodeQueries(bs, variables, functions) ==
    LET ds == [i \in 1..Len(bs) |-> DecodeQuery(bs[i], variables, functions)]
    IN  [err |-> \E i \in 1..Len(ds) : ds[i].err,
         qs |-> [i \in 1..Len(ds) |-> ds[i].q]]

\* InitialContext(): the builtin functions and the variable now
InitialContext(now) == One("now", Num(now))

NilSchema ==
    [loaded |-> FALSE, StartTime |-> 0, EndTime |-> 0, TimeInterval |-> 0,
     StartBlock |-> 0, EndBlock |-> 0, BlockInterval |-> 0,
     Variables |-> EmptyMap, QuerySchemas |-> << >>, EvalContext |-> 0]

----------------------------------------------------------------------------
(* NewSchema                                                               *)

\* the loop items: each item expression decoded against the enriched context
DecodeItems(items, variables, functions) ==
    [i \in 1..Len(items) |-> EvalExpr(items[i], variables, functions)]

\* ExpandLoop with every iteration's queries put in front of the earlier ones
RECURSIVE ExpandLoopPrepending(_, _, _)
ExpandLoopPrepending(template, items, functions) ==
    IF items = << >>
       THEN [err |-> FALSE, qs |-> << >>, newCtxs |-> << >>]
       ELSE LET newCtx == One("item", items[1])
                d == DecodeQueries(template, newCtx, functions)
                rest == ExpandLoopPrepending(template, Tail(items), functions)
            IN  IF d.err
                   THEN [err |-> TRUE, qs |-> << >>, newCtxs |-> << >>]
                   ELSE [err |-> rest.err, qs |-> rest.qs \o d.qs,
                         newCtxs |-> <<newCtx>> \o rest.newCtxs]

\* lines 427-442: for every item, decode the template against a fresh context
\* holding the builtin functions and the variable item, and append the queries
RECURSIVE ExpandLoop(_, _, _)
ExpandLoop(template, items, functions) ==
    IF items = << >>
       THEN [err |-> FALSE, qs |-> << >>, newCtxs |-> << >>]
       ELSE LET newCtx == One("item", items[1])
                d == DecodeQueries(template, newCtx, functions)
                rest == ExpandLoop(template, Tail(items), functions)
            IN  IF d.err
                   THEN [err |-> TRUE, qs |-> << >>, newCtxs |-> << >>]
                   ELSE [err |-> rest.err, qs |-> d.qs \o rest.qs,
                         newCtxs |-> <<newCtx>> \o rest.newCtxs]

\* line 447: query.EvalContext = s.EvalContext, for every query
AttachContext(qs, schemaCtx) ==
    [i \in 1..Len(qs) |-> [qs[i] EXCEPT !.EvalContext = schemaCtx]]

\* lines 449-475: every event and contract ABI file is opened and parsed
AbisOk(qs) ==
    \A i \in 1..Len(qs) :
        /\ \A j \in 1..Len(qs[i].EventSchemas) : qs[i].EventSchemas[j].AbiOk
        /\ \A j \in 1..Len(qs[i].ContractSchemas) : qs[i].ContractSchemas[j].AbiOk

Failed(e) == [err |-> e, s |-> NilSchema, ctxs |-> << >>]

\* NewSchema returning the schema built so far, next to the error, when an
\* ABI file cannot be read or parsed
NewSchemaResultPartialOnAbi(f, now, functions) ==
    LET schemaContext == InitialContext(now)
        dv == DecodeBody(f.Variables, schemaContext, functions)
        enriched == MergeInto(schemaContext, dv.mv)
        items == DecodeItems(f.Loop.Items, enriched, functions)
        direct == DecodeQueries(f.Queries, enriched, functions)
        loop == IF f.Loop.present
                   THEN ExpandLoop(f.Loop.Queries, items, functions)
                   ELSE [err |-> FALSE, qs |-> << >>, newCtxs |-> << >>]
        all == direct.qs \o loop.qs
    IN  IF ~f.readable THEN Failed("read")
        ELSE IF ~f.syntaxOk THEN Failed("syntax")
        ELSE IF ~f.scalarsOk \/ dv.err THEN Failed("decode")
        ELSE IF direct.err \/ (f.Loop.present /\ \E i \in 1..Len(items) : items[i] = DecodeErr)
             THEN Failed("decode")
        ELSE IF loop.err THEN Failed("decode")
        ELSE    [err |-> IF AbisOk(all) THEN "" ELSE "abi",
                 s |-> [loaded |-> TRUE,
                        StartTime |-> f.StartTime, EndTime |-> f.EndTime,
                        TimeInterval |-> f.TimeInterval,
                        StartBlock |-> f.StartBlock, EndBlock |-> f.EndBlock,
                        BlockInterval |-> f.BlockInterval,
                        Variables |-> dv.mv,
                        QuerySchemas |-> AttachContext(all, 1),
                        EvalContext |-> 1],
                 ctxs |-> <<enriched>> \o loop.newCtxs]

\* NewSchema(confDir) at wall-clock time now, with the function table functions
NewSchemaResult(f, now, functions) ==
    LET schemaContext == InitialContext(now)
        dv == DecodeBody(f.Variables, schemaContext, functions)
        enriched == MergeInto(schemaContext, dv.mv)
        items == DecodeItems(f.Loop.Items, enriched, functions)
        direct == DecodeQueries(f.Queries, enriched, functions)
        loop == IF f.Loop.present
                   THEN ExpandLoop(f.Loop.Queries, items, functions)
                   ELSE [err |-> FALSE, qs |-> << >>, newCtxs |-> << >>]
        all == direct.qs \o loop.qs
    IN  IF ~f.readable THEN Failed("read")
        ELSE IF ~f.syntaxOk THEN Failed("syntax")
        ELSE IF ~f.scalarsOk \/ dv.err THEN Failed("decode")
        ELSE IF direct.err \/ (f.Loop.present /\ \E i \in 1..Len(items) : items[i] = DecodeErr)
             THEN Failed("decode")
        ELSE IF loop.err THEN Failed("decode")
        ELSE IF ~AbisOk(all) THEN Failed("abi")
        ELSE    [err |-> "",
                 s |-> [loaded |-> TRUE,
                        StartTime |-> f.StartTime, EndTime |-> f.EndTime,
                        TimeInterval |-> f.TimeInterval,
                        StartBlock |-> f.StartBlock, EndBlock |-> f.EndBlock,
                        BlockInterval |-> f.BlockInterval,
                        Variables |-> dv.mv,
                        QuerySchemas |-> AttachContext(all, 1),
                        EvalContext |-> 1],
                 ctxs |-> <<enriched>> \o loop.newCtxs]

NewSchema ==
    /\ loadErr = "none"
    /\ \E r \in {NewSchemaResult(file, time, Functions)} :
           /\ s' = r.s
           /\ loadErr' = r.err
           /\ ctxs' = r.ctxs
    /\ UNCHANGED <<file, time, Functions, ret, ev, calls, firsts>>

----------------------------------------------------------------------------
(* Validate                                                                *)

ErrNoIntervalRealtime == "no interval defined for realtime method calls"
ErrNoIntervalHistorical == "no interval defined for historical method calls"
ErrIntervalDefinedForHistoricalEvents == "interval defined for historical events"

\* lines 216-221: both flags are assigned, not or-ed, for every contract
RECURSIVE ScanContracts(_, _)
ScanContracts(cs, flags) ==
    IF cs = << >> THEN flags
    ELSE ScanContracts(Tail(cs), [hasMethods |-> cs[1].Methods > 0,
                                  hasEvents |-> cs[1].Events > 0])

RECURSIVE ScanQueries(_, _)
ScanQueries(qs, flags) ==
    IF qs = << >> THEN flags
    ELSE ScanQueries(Tail(qs), ScanContracts(qs[1].ContractSchemas, flags))

\* DynamicSchema.Validate(opts): the error returned, "" for nil
Validate(sch, realtime) ==
    LET flags == ScanQueries(sch.QuerySchemas, [hasMethods |-> FALSE, hasEvents |-> FALSE])
        noInterval == sch.BlockInterval = 0 /\ sch.TimeInterval = 0
        window == \/ (sch.StartBlock # 0 /\ sch.EndBlock # 0)
                  \/ (sch.StartTime # 0 /\ sch.EndTime # 0)
    IN  IF flags.hasMethods /\ realtime /\ noInterval THEN ErrNoIntervalRealtime
        ELSE IF flags.hasMethods /\ window /\ noInterval THEN ErrNoIntervalHistorical
        ELSE IF flags.hasEvents /\ ~realtime /\ sch.BlockInterval # 0
             THEN ErrIntervalDefinedForHistoricalEvents
        ELSE IF flags.hasEvents /\ ~realtime /\ sch.TimeInterval # 0
             THEN ErrIntervalDefinedForHistoricalEvents
        ELSE ""

NoRet == [op |-> "none", err |-> "", isNil |-> TRUE, out |-> EmptyMap, realtime |-> FALSE]

\* the call s.Validate(opts) on a loaded schema
ValidateCall ==
    /\ s.loaded
    /\ \E realtime \in BOOLEAN :
          ret' = [op |-> "Validate", err |-> Validate(s, realtime), isNil |-> TRUE,
                  out |-> EmptyMap, realtime |-> realtime]
    /\ UNCHANGED <<file, time, s, loadErr, ctxs, Functions, ev, calls, firsts>>

----------------------------------------------------------------------------
(* Schema files                                                            *)

SeqsUpTo(S, n) == UNION {[1..k -> S] : k \in 0..n}

\* a readable, well-formed schema.hcl with the given content
SchemaFile(scalars, variables, queries, loop) ==
    [readable |-> TRUE, syntaxOk |-> TRUE, scalarsOk |-> TRUE,
     StartTime |-> scalars[1], EndTime |-> scalars[2], TimeInterval |-> scalars[3],
     StartBlock |-> scalars[4], EndBlock |-> scalars[5], BlockInterval |-> scalars[6],
     Variables |-> variables, Queries |-> queries, Loop |-> loop]

NoScalars == <<0, 0, 0, 0, 0, 0>>

\* the initial function table: the builtin functions only
Builtins == [f \in FuncNames |-> IF f = "upper" THEN <<"builtin", 0, 0>> ELSE <<"absent", 0, 0>>]

NoEv == [called |-> FALSE]

\* no EvalSave call on a schema yet
NoFirst == [called |-> FALSE]

\* the names a query can bear, and a goroutine that is not inside EvalSave
QueryNames == {"qa", "qb"}
Idle == [pc |-> "idle"]

InitWith(files) ==
    /\ file \in files
    /\ time = 1000
    /\ s = NilSchema
    /\ loadErr = "none"
    /\ ctxs = << >>
    /\ Functions = Builtins
    /\ ret = NoRet
    /\ ev = NoEv
    /\ calls = [n \in QueryNames |-> Idle]
    /\ firsts = [this |-> NoFirst, prev |-> NoFirst]

----------------------------------------------------------------------------
(* Validation of loaded schemas: schemas that differ in which contract of  *)
(* which query declares methods and events, and in the window and the      *)
(* intervals set.                                                          *)

ValidateContracts ==
    {ContractBlock(Lit(Str(1)), m, e, NoBody) : m \in 0..1, e \in 0..1}

ValidateQueries ==
    {QueryBlock("qa", cs, es, EmptyBody, NoFilter) :
        cs \in SeqsUpTo(ValidateContracts, MaxContracts),
        es \in {<< >>, <<EventBlock(1, NoBody)>>}}

ValidateScalars ==
    {<<w[3], w[4], ti, w[1], w[2], bi>> :
        w \in {<<0, 0, 0, 0>>, <<1, 9, 0, 0>>, <<0, 0, 1, 9>>, <<1, 0, 0, 0>>},
        ti \in {0, 5}, bi \in {0, 5}}

ValidateFiles ==
    {SchemaFile(sc, EmptyBody, qs, NoLoop) :
        sc \in ValidateScalars, qs \in SeqsUpTo(ValidateQueries, MaxQueries)}

InitValidate == InitWith(ValidateFiles)

NextValidate == NewSchema \/ ValidateCall

SpecValidate == InitValidate /\ [][NextValidate]_vars

\* what the Validate rules are stated over
AnyMethod(sch) ==
    \E i \in 1..Len(sch.QuerySchemas) :
        \E j \in 1..Len(sch.QuerySchemas[i].ContractSchemas) :
            sch.QuerySchemas[i].ContractSchemas[j].Methods > 0

AnyEvent(sch) ==
    \E i \in 1..Len(sch.QuerySchemas) :
        \/ Len(sch.QuerySchemas[i].EventSchemas) > 0
        \/ \E j \in 1..Len(sch.QuerySchemas[i].ContractSchemas) :
              sch.QuerySchemas[i].ContractSchemas[j].Events > 0

IntervalSet(sch) ==
    \/ sch.BlockInterval # 0
    \/ sch.TimeInterval # 0
    \/ \E i \in 1..Len(sch.QuerySchemas) : sch.QuerySchemas[i].BlockInterval # 0

WindowSet(sch) ==
    \/ (sch.StartBlock # 0 /\ sch.EndBlock # 0)
    \/ (sch.StartTime # 0 /\ sch.EndTime # 0)

\* C7: in realtime mode Validate returns ErrNoIntervalRealtime exactly when
\* some contract of some query declares a Method and no time or block interval
\* is set, whichever contract or query holds the Method.
C7_RealtimeMethodNeedsInterval ==
    (ret.op = "Validate" /\ ret.realtime) =>
        ((ret.err = ErrNoIntervalRealtime) <=> (AnyMethod(s) /\ ~IntervalSet(s)))

\* C8: in non-realtime mode, when any query has an Event (contract-scoped or
\* global) and the block interval or the time interval is non-zero, Validate
\* returns ErrIntervalDefinedForHistoricalEvents.
C8_HistoricalEventsForbidInterval ==
    (ret.op = "Validate" /\ ~ret.realtime /\ AnyEvent(s)
        /\ (s.BlockInterval # 0 \/ s.TimeInterval # 0)) =>
        ret.err = ErrIntervalDefinedForHistoricalEvents

\* C9: when any query has a Method, a historical window is set and neither
\* interval is set, Validate returns ErrNoIntervalHistorical unless the
\* realtime rule is violated first, and then only ErrNoIntervalRealtime.
C9_HistoricalMethodNeedsInterval ==
    (ret.op = "Validate" /\ AnyMethod(s) /\ WindowSet(s) /\ ~IntervalSet(s)) =>
        ret.err = (IF ret.realtime THEN ErrNoIntervalRealtime ELSE ErrNoIntervalHistorical)

----------------------------------------------------------------------------
(* Loading: schemas with a global variable, directly declared queries and  *)
(* an optional loop block whose template takes its contract address from   *)
(* the loop item.                                                          *)

GlobalVariables == Body("g", Lit(Str(2)))

LoadQueries ==
    {QueryBlock(name, <<ContractBlock(a, 1, 0, NoBody)>>, << >>, EmptyBody, NoFilter) :
        name \in {"qa", "qb"}, a \in {Lit(Str(1)), Var("item")}}

LoadItems == {Lit(Str(1)), Lit(Str(12))}

LoadLoops ==
    {NoLoop} \cup
    {[present |-> TRUE, Items |-> items, Queries |-> template] :
        items \in SeqsUpTo(LoadItems, MaxItems),
        template \in SeqsUpTo(LoadQueries, MaxQueries) \ {<< >>}}

LoadFiles ==
    {SchemaFile(NoScalars, GlobalVariables, qs, loop) :
        qs \in SeqsUpTo(LoadQueries, MaxQueries), loop \in LoadLoops}

InitLoad == InitWith(LoadFiles)

NextLoad == NewSchema

SpecLoad == InitLoad /\ [][NextLoad]_vars

\* the layout of QuerySchemas the claims are stated over
NumDirect == Len(file.Queries)
NumItems == IF file.Loop.present THEN Len(file.Loop.Items) ELSE 0
PerItem == Len(file.Loop.Queries)

\* query i of the loaded schema was decoded from block b with the addresses
\* written as item replaced by the string item
DecodedFrom(q, b, item) ==
    /\ q.Name = b.Name
    /\ q.Saves = b.Saves
    /\ q.Filters = b.Filters
    /\ Len(q.ContractSchemas) = Len(b.Contracts)
    /\ \A c \in 1..Len(b.Contracts) :
          q.ContractSchemas[c].Address_ =
              (IF b.Contracts[c].Address_.op = "var" THEN item
               ELSE b.Contracts[c].Address_.v[2])

\* C6: after a successful load QuerySchemas is the directly declared queries
\* in declaration order, followed for each loop item, in item order, by one
\* copy of the template's queries; without a loop it is the direct queries.
C6_QuerySchemasLayout ==
    s.loaded =>
        /\ Len(s.QuerySchemas) = NumDirect + NumItems * PerItem
        /\ \A i \in 1..NumDirect :
              DecodedFrom(s.QuerySchemas[i], file.Queries[i], 0)
        /\ \A k \in 1..NumItems : \A j \in 1..PerItem :
              DecodedFrom(s.QuerySchemas[NumDirect + (k - 1) * PerItem + j],
                          file.Loop.Queries[j], file.Loop.Items[k].v[2])

\* C6 witness: a loaded schema with a direct query and a loop over two
\* different items has been laid out.
C6_Witness ==
    /\ s.loaded
    /\ NumDirect >= 1
    /\ NumItems >= 2
    /\ file.Loop.Items[1] # file.Loop.Items[2]
    /\ file.Loop.Queries[1].Contracts[1].Address_ = Var("item")
    /\ Len(s.QuerySchemas) = NumDirect + NumItems * PerItem

\* C17: after a successful load the names of the queries are pairwise
\* distinct, the queries a loop over two or more items produced included.
C17_QueryNamesDistinct ==
    s.loaded =>
        \A i, j \in 1..Len(s.QuerySchemas) :
            s.QuerySchemas[i].Name = s.QuerySchemas[j].Name => i = j

\* the context a query refers to
ContextOf(q) == ctxs[q.EvalContext]

\* C5: after a successful load every loop-expanded query's live context is
\* the loop context of its own item (only the variable item, no global
\* variable), and every direct query's live context is the enriched context.
C5_LoopQueriesKeepLoopContext ==
    s.loaded =>
        /\ \A i \in 1..NumDirect :
              ContextOf(s.QuerySchemas[i]) =
                  MergeInto(InitialContext(time), One("g", Str(2)))
        /\ \A k \in 1..NumItems : \A j \in 1..PerItem :
              ContextOf(s.QuerySchemas[NumDirect + (k - 1) * PerItem + j]) =
                  One("item", file.Loop.Items[k].v)
        /\ Functions = Builtins

----------------------------------------------------------------------------
(* Call results and the variables derived from them                        *)

\* raw Go values of CallResult.Inputs / Outputs
GoString(n) == <<"gostr", n>>
GoAddress(a) == <<"goaddr", a>>
GoNumber(n) == <<"gonum", n>>

GoBool(b) == <<"gobool", IF b THEN 1 ELSE 0>>

\* the strings Hash.String() and the Chain type give; kept apart from the
\* address spellings (1, 2, 11, 12) and the event names
HashString(h) == 200 + h
ChainString(c) == 400 + c

\* types.CallResult; hashes, timestamp and transaction are those of the block
CallResult(queryName, type, identifier, address, chain, block, inputs, outputs) ==
    [QueryName |-> queryName, Type |-> type, Identifier |-> identifier,
     ContractAddress |-> address, Chain |-> chain, BlockNumber |-> block,
     Timestamp |-> 10 * block, BlockHash |-> block, TxHash |-> 50 + block,
     TxIndex |-> block, EventName |-> 21,
     Inputs |-> inputs, Outputs |-> outputs]

\* gocty.ToCtyValue(v, cty.String), the error dropped
ToCtyString(raw) == IF raw[1] = "gostr" THEN Str(raw[2]) ELSE NilVal

\* gocty.ToCtyValue(v, cty.Number), the error dropped
ToCtyNumber(raw) == IF raw[1] = "gonum" THEN Num(raw[2]) ELSE NilVal

\* lines 500-507: the type switch over an input value
InputVar(raw) ==
    IF raw[1] = "gostr" THEN ToCtyString(raw) ELSE ToCtyNumber(raw)

\* lines 509-518: the type switch over an output value
OutputVar(raw) ==
    IF raw[1] = "goaddr" THEN Str(AddressString(raw[2]))
    ELSE IF raw[1] = "gostr" THEN ToCtyString(raw)
    ELSE ToCtyNumber(raw)

\* GenerateContextVars adding the transaction variables for contract events
\* only, not for global events
GenerateContextVarsContractEventsOnly(cr) ==
    LET always ==
            [k \in {"contract_address", "blocknumber", "timestamp", "block_hash", "chain"} |->
                CASE k = "contract_address" -> Str(AddressString(cr.ContractAddress))
                  [] k = "blocknumber" -> Num(cr.BlockNumber)
                  [] k = "timestamp" -> Num(cr.Timestamp)
                  [] k = "block_hash" -> Str(HashString(cr.BlockHash))
                  [] k = "chain" -> Str(ChainString(cr.Chain))]
        event ==
            [k \in {"tx_hash", "event_name", "tx_index"} |->
                CASE k = "tx_hash" -> Str(HashString(cr.TxHash))
                  [] k = "event_name" -> Str(cr.EventName)
                  [] k = "tx_index" -> Num(cr.TxIndex)]
        base == IF cr.Type = "Event" THEN MergeInto(always, event) ELSE always
        inputs == [k \in DOMAIN cr.Inputs |-> InputVar(cr.Inputs[k])]
        outputs == [k \in DOMAIN cr.Outputs |-> OutputVar(cr.Outputs[k])]
    IN  MergeInto(MergeInto(base, inputs), outputs)

\* lines 485-521
GenerateContextVars(cr) ==
    LET always ==
            [k \in {"contract_address", "blocknumber", "timestamp", "block_hash", "chain"} |->
                CASE k = "contract_address" -> Str(AddressString(cr.ContractAddress))
                  [] k = "blocknumber" -> Num(cr.BlockNumber)
                  [] k = "timestamp" -> Num(cr.Timestamp)
                  [] k = "block_hash" -> Str(HashString(cr.BlockHash))
                  [] k = "chain" -> Str(ChainString(cr.Chain))]
        event ==
            [k \in {"tx_hash", "event_name", "tx_index"} |->
                CASE k = "tx_hash" -> Str(HashString(cr.TxHash))
                  [] k = "event_name" -> Str(cr.EventName)
                  [] k = "tx_index" -> Num(cr.TxIndex)]
        base == IF cr.Type # "Method" THEN MergeInto(always, event) ELSE always
        inputs == [k \in DOMAIN cr.Inputs |-> InputVar(cr.Inputs[k])]
        outputs == [k \in DOMAIN cr.Outputs |-> OutputVar(cr.Outputs[k])]
    IN  MergeInto(MergeInto(base, inputs), outputs)

\* BuildChainFunctions(provider, chain, block): the chain functions closed
\* over the chain and the block number
BuildChainFunctions(chain, block) ==
    [f \in FuncNames |->
        IF f \in {"balance", "token_balance"} THEN <<"chain", chain, block>>
        ELSE <<"absent", 0, 0>>]

\* a merge that registers a function only under a name not yet bound
MergeFunctionsKeepingBound(a, b) ==
    [f \in DOMAIN a |-> IF a[f][1] = "absent" THEN b[f] ELSE a[f]]

\* for k, v := range fs { functions[k] = v }
MergeFunctions(a, b) == [f \in DOMAIN a |-> IF b[f][1] # "absent" THEN b[f] ELSE a[f]]

----------------------------------------------------------------------------
(* EvalTransforms, EvalFilter, EvalSave                                    *)

\* one of the two loops of EvalTransforms from node i on: ts are the nodes'
\* Transform bodies, ids the strings compared with the identifier
RECURSIVE EvalTransformNodes(_, _, _, _, _, _)
EvalTransformNodes(ts, ids, identifier, functions, i, acc) ==
    IF i > Len(ts) THEN acc
    ELSE IF ~ts[i].present THEN acc                           \* return nil
    ELSE IF ids[i] = identifier
         THEN LET d == DecodeBody(ts[i], acc.variables, functions)
              IN  IF d.err
                     THEN [acc EXCEPT !.err = TRUE]
                     ELSE EvalTransformNodes(ts, ids, identifier, functions, i + 1,
                              [acc EXCEPT !.variables = MergeInto(@, d.mv),
                                          !.decoded = @ \cup {i},
                                          !.tmv = MergeInto(@, d.mv)])
    ELSE EvalTransformNodes(ts, ids, identifier, functions, i + 1, acc)

\* q.EvalTransforms(tp, identifier) on the context (variables, functions):
\* the error, the context's variables afterwards, the nodes whose Transform
\* was decoded and what those decodes produced
EvalTransforms(q, variables, functions, tp, identifier) ==
    LET start == [err |-> FALSE, variables |-> variables, decoded |-> {}, tmv |-> EmptyMap]
    IN  IF tp = "GlobalEvent"
           THEN EvalTransformNodes(
                    [i \in 1..Len(q.EventSchemas) |-> q.EventSchemas[i].Transforms],
                    [i \in 1..Len(q.EventSchemas) |-> OutputName(q.EventSchemas[i])],
                    identifier, functions, 1, start)
           ELSE EvalTransformNodes(
                    [i \in 1..Len(q.ContractSchemas) |-> q.ContractSchemas[i].Transforms],
                    [i \in 1..Len(q.ContractSchemas) |->
                        AddressString(Address(q.ContractSchemas[i]))],
                    identifier, functions, 1, start)

\* the loop of EvalFilter from query i on; filters is the local slice
RECURSIVE EvalFilterFrom(_, _, _, _, _, _)
EvalFilterFrom(qs, heap, functions, queryName, i, acc) ==
    IF i > Len(qs)
       THEN [acc EXCEPT !.ok = \A j \in 1..Len(acc.filters) : acc.filters[j]]
    ELSE IF qs[i].Name = queryName
         THEN IF ~qs[i].Filters.present
                 THEN [acc EXCEPT !.ok = TRUE]                \* return true, nil
                 ELSE LET d == DecodeFilter(qs[i].Filters, heap[qs[i].EvalContext], functions)
                      IN  IF d.err
                             THEN [acc EXCEPT !.ok = FALSE, !.err = TRUE]
                             ELSE EvalFilterFrom(qs, heap, functions, queryName, i + 1,
                                      [acc EXCEPT !.filters = d.filters,
                                                  !.decoded = TRUE,
                                                  !.against = heap[qs[i].EvalContext]])
    ELSE EvalFilterFrom(qs, heap, functions, queryName, i + 1, acc)

\* EvalFilter taking a query without a Filter for filtered out
EvalFilterAbsentIsFalse(qs, heap, functions, queryName) ==
    LET r == EvalFilterFrom(qs, heap, functions, queryName, 1,
                 [ok |-> TRUE, err |-> FALSE, filters |-> << >>, decoded |-> FALSE,
                  against |-> EmptyMap])
    IN  [r EXCEPT !.ok = @ /\ \A i \in 1..Len(qs) :
                                qs[i].Name = queryName => qs[i].Filters.present]

\* EvalFilter looking at the first boolean of the decoded list only
EvalFilterFirstOnly(qs, heap, functions, queryName) ==
    LET r == EvalFilterFrom(qs, heap, functions, queryName, 1,
                 [ok |-> TRUE, err |-> FALSE, filters |-> << >>, decoded |-> FALSE,
                  against |-> EmptyMap])
    IN  [r EXCEPT !.ok = ~r.err /\ (r.filters = << >> \/ r.filters[1])]

\* s.EvalFilter(queryName): ok and err as returned, the list last decoded and
\* the variables it was decoded against
EvalFilter(qs, heap, functions, queryName) ==
    EvalFilterFrom(qs, heap, functions, queryName, 1,
        [ok |-> TRUE, err |-> FALSE, filters |-> << >>, decoded |-> FALSE,
         against |-> EmptyMap])

NoTrace ==
    [matched |-> FALSE, transformErr |-> FALSE, decoded |-> {}, tmv |-> EmptyMap,
     saveReached |-> FALSE, saveErr |-> FALSE, saveAgainst |-> EmptyMap]

\* EvalSaveQuery decoding the Save body before the Transforms are evaluated
EvalSaveQuerySaveFirst(q, variables, functions, res) ==
    LET v1 == MergeInto(variables, GenerateContextVars(res))
        f1 == MergeFunctions(functions, BuildChainFunctions(res.Chain, res.BlockNumber))
        Result(t, d) ==
            [err |-> t.err \/ d.err,
             variables |-> t.variables,
             functions |-> f1,
             outputs |-> d.mv,
             trace |-> [matched |-> TRUE, transformErr |-> t.err, decoded |-> t.decoded,
                        tmv |-> t.tmv, saveReached |-> TRUE,
                        saveErr |-> d.err,
                        saveAgainst |-> v1]]
    IN  Result(EvalTransforms(q, v1, f1, res.Type, res.Identifier),
               DecodeBody(q.Saves, v1, f1))

\* lines 178-197, the body of EvalSave's loop for a query of the result's name,
\* on the context (variables, functions) the query refers to
EvalSaveQuery(q, variables, functions, res) ==
    LET v1 == MergeInto(variables, GenerateContextVars(res))
        f1 == MergeFunctions(functions, BuildChainFunctions(res.Chain, res.BlockNumber))
        \* t: what EvalTransforms returned; d: what the Save body decoded to
        Result(t, d) ==
            [err |-> t.err \/ d.err,
             variables |-> t.variables,
             functions |-> f1,
             outputs |-> d.mv,
             trace |-> [matched |-> TRUE, transformErr |-> t.err, decoded |-> t.decoded,
                        tmv |-> t.tmv, saveReached |-> ~t.err,
                        saveErr |-> ~t.err /\ d.err,
                        saveAgainst |-> IF t.err THEN EmptyMap ELSE t.variables]]
        Saved(t) == Result(t, DecodeBody(q.Saves, t.variables, f1))
    IN  Saved(EvalTransforms(q, v1, f1, res.Type, res.Identifier))

\* the loop of EvalSave (lines 176-199) from query i on
RECURSIVE EvalSaveFrom(_, _, _, _)
EvalSaveFrom(qs, res, i, acc) ==
    IF i > Len(qs) \/ acc.err THEN acc
    ELSE IF qs[i].Name = res.QueryName
         THEN LET c == qs[i].EvalContext
                  \* r: what the loop body did on the query's context
                  After(r) ==
                      [err |-> r.err,
                       heap |-> [acc.heap EXCEPT ![c] = r.variables],
                       functions |-> r.functions,
                       outputs |-> IF r.err THEN acc.outputs ELSE r.outputs,
                       trace |-> [acc.trace EXCEPT ![i] = r.trace]]
              IN  EvalSaveFrom(qs, res, i + 1,
                      After(EvalSaveQuery(qs[i], acc.heap[c], acc.functions, res)))
    ELSE EvalSaveFrom(qs, res, i + 1, acc)

\* s.EvalSave(provider, res): the returned map (isNil: a nil map) and error,
\* the heap and the function table afterwards, and what was decoded
EvalSave(qs, heap, functions, res) ==
    LET \* l: the state after the loop; f: what EvalFilter returned
        Result(l, f) ==
            [isNil |-> l.err \/ f.err \/ ~f.ok,
             out |-> IF l.err \/ f.err \/ ~f.ok THEN EmptyMap ELSE l.outputs,
             err |-> IF l.err \/ f.err THEN "decode" ELSE "",
             heap |-> l.heap,
             functions |-> l.functions,
             trace |-> l.trace,
             filter |-> IF l.err
                           THEN [ok |-> FALSE, err |-> FALSE, filters |-> << >>,
                                 decoded |-> FALSE, against |-> EmptyMap]
                           ELSE f]
        Filtered(l) == Result(l, EvalFilter(qs, l.heap, l.functions, res.QueryName))
    IN  Filtered(EvalSaveFrom(qs, res, 1,
                     [err |-> FALSE, heap |-> heap, functions |-> functions,
                      outputs |-> EmptyMap, trace |-> [i \in 1..Len(qs) |-> NoTrace]]))

\* the call s.EvalSave(provider, res) on a loaded schema
EvalSaveDo(results) ==
    /\ s.loaded
    /\ \E res \in results :
          \E r \in {EvalSave(s.QuerySchemas, ctxs, Functions, res)} :
              /\ ctxs' = r.heap
              /\ Functions' = r.functions
              /\ ret' = [op |-> "EvalSave", err |-> r.err, isNil |-> r.isNil,
                         out |-> r.out, realtime |-> FALSE]
              /\ ev' = [called |-> TRUE, res |-> res, trace |-> r.trace,
                        filter |-> r.filter]
    /\ UNCHANGED <<file, time, s, loadErr, calls>>

\* the call, on a schema whose first call is not followed
EvalSaveCall(results) == EvalSaveDo(results) /\ UNCHANGED firsts

----------------------------------------------------------------------------
(* Evaluation: schemas whose first query "qa" varies in its contracts or   *)
(* global events, their Transforms, its Save and its Filter, followed by   *)
(* further queries, "qb" or a second "qa"; results for "qa", "qb" and an   *)
(* unknown query.                                                          *)

Doubling == Body("doubled", Dbl("amount"))      \* transform { doubled = amount * 2 }
Seven == Body("doubled", Lit(Num(7)))           \* transform { doubled = 7 }

EvalContracts ==
    {ContractBlock(Lit(Str(1)), 1, 1, NoBody),
     ContractBlock(Lit(Str(12)), 1, 1, Doubling),
     ContractBlock(Lit(Str(2)), 1, 1, Seven)}

EvalNodes ==
    {<<cs, << >> >> : cs \in SeqsUpTo(EvalContracts, MaxContracts)}
    \cup {<< << >>, <<EventBlock(21, Seven)>> >>,
          << << >>, <<EventBlock(22, NoBody), EventBlock(21, Seven)>> >>}

EvalSaves == {Body("out", Var("doubled")), Body("out", Var("amount"))}

EvalFilters == {NoFilter, Filter(<<Lit(Bool(TRUE)), Gt("doubled", 50)>>)}

OtherQuery ==
    QueryBlock("qb", <<ContractBlock(Lit(Str(1)), 1, 0, Doubling)>>, << >>,
               Body("out", Var("amount")), NoFilter)

\* a second query that bears the first query's name
SameNameQuery ==
    QueryBlock("qa", <<ContractBlock(Lit(Str(1)), 1, 0, Seven)>>, << >>,
               Body("out", Var("amount")), NoFilter)

\* the queries after the first: no query twice
EvalOthers ==
    {qs \in SeqsUpTo({OtherQuery, SameNameQuery}, MaxQueries - 1) :
        \A i, j \in 1..Len(qs) : qs[i] = qs[j] => i = j}

EvalFiles ==
    {SchemaFile(NoScalars, EmptyBody,
                <<QueryBlock("qa", n[1], n[2], sv, fl)>> \o others, NoLoop) :
        n \in EvalNodes, sv \in EvalSaves, fl \in EvalFilters,
        others \in EvalOthers}

\* Inputs of a result: none, or the number amount
Amount(n) == One("amount", GoNumber(n))

\* results for the first query: a method call on address 1, an event of
\* address 2 and a global event, each with and without the input amount
EvalKinds ==
    {<<"Method", AddressString(1), 1>>, <<"Event", AddressString(2), 2>>,
     <<"GlobalEvent", OutputName(EventBlock(21, NoBody)), 1>>}

EvalResults ==
    {CallResult("qa", k[1], k[2], k[3], 1, 1, in, EmptyMap) :
        k \in EvalKinds, in \in {EmptyMap, Amount(42)}}
    \cup {CallResult("qb", "Method", AddressString(1), 1, 1, 1, in, EmptyMap) :
            in \in {EmptyMap, Amount(42)}}
    \cup {CallResult("zz", "Method", AddressString(1), 1, 1, 1, Amount(42), EmptyMap)}

Init == InitWith(EvalFiles)

Next == NewSchema \/ EvalSaveCall(EvalResults)

Spec == Init /\ [][Next]_vars

----------------------------------------------------------------------------
(* Claims about evaluation.  They are stated over the last call of         *)
(* EvalSave: its argument ev.res, what it returned (ret) and what it       *)
(* decoded (ev.trace, ev.filter).                                          *)

\* the queries of the loaded schema that bear the result's name
Owners == {i \in 1..Len(s.QuerySchemas) : s.QuerySchemas[i].Name = ev.res.QueryName}

\* i is the owning query of the last result: the one query of that name
OwningQuery(i) == ev.called /\ Owners = {i}

\* C1: when the owning query has a Filter and the decoded Filter list holds
\* a false, EvalSave returns (nil, nil), although the Save body was decoded.
C1_FilteredOutReturnsNilNil ==
    \A i \in 1..Len(s.QuerySchemas) :
        (/\ OwningQuery(i)
         /\ s.QuerySchemas[i].Filters.present
         /\ ev.filter.decoded
         /\ \E j \in 1..Len(ev.filter.filters) : ~ev.filter.filters[j])
        => (ret.isNil /\ ret.err = "")

\* C1 witness: a Filter decoded to [true, false] after the Save body of the
\* same result had decoded to a value, and the call returned (nil, nil).
C1_Witness ==
    \E i \in 1..Len(s.QuerySchemas) :
        /\ OwningQuery(i)
        /\ s.QuerySchemas[i].Filters.present
        /\ ev.filter.filters = <<TRUE, FALSE>>
        /\ ev.trace[i].saveReached /\ ~ev.trace[i].saveErr
        /\ DecodeBody(s.QuerySchemas[i].Saves, ev.trace[i].saveAgainst, Functions).mv
              = One("out", Num(7))
        /\ ret.isNil /\ ret.err = ""

\* C2: every variable a Transform of the result produced is in the context,
\* with the value produced, when the Save body and when the Filter of the
\* same result are decoded, and a Save that reads it returns it.
C2_TransformVisibleToSaveAndFilter ==
    \A i \in 1..Len(s.QuerySchemas) :
        OwningQuery(i) =>
            LET tr == ev.trace[i]
            IN  /\ tr.saveReached =>
                      \A k \in DOMAIN tr.tmv : Get(tr.saveAgainst, k) = tr.tmv[k]
                /\ ev.filter.decoded =>
                      \A k \in DOMAIN tr.tmv : Get(ev.filter.against, k) = tr.tmv[k]
                /\ (~ret.isNil /\ "doubled" \in DOMAIN tr.tmv
                        /\ s.QuerySchemas[i].Saves = Body("out", Var("doubled"))) =>
                      ret.out = One("out", tr.tmv["doubled"])

\* C2 witness: from the input amount = 42 a Transform produced doubled = 84,
\* the Save returned it and the Filter read it.
C2_Witness ==
    \E i \in 1..Len(s.QuerySchemas) :
        /\ OwningQuery(i)
        /\ ev.res.Inputs = Amount(42)
        /\ ev.trace[i].tmv = One("doubled", Num(84))
        /\ ev.filter.decoded
        /\ ev.filter.filters = <<TRUE, TRUE>>
        /\ ret.out = One("out", Num(84))

\* C15: when the owning query has no Filter or every boolean of its decoded
\* Filter list is true, and no decode fails, EvalSave returns without error
\* exactly the map its Save body decodes to against the context that holds
\* the variables derived from the result and the merged Transform output.
C15_PassingResultReturnsSaveMap ==
    \A i \in 1..Len(s.QuerySchemas) :
        (/\ OwningQuery(i)
         /\ ret.err = ""
         /\ \/ ~s.QuerySchemas[i].Filters.present
            \/ ev.filter.decoded /\ \A j \in 1..Len(ev.filter.filters) : ev.filter.filters[j])
        => LET tr == ev.trace[i]
               own == MergeInto(GenerateContextVars(ev.res), tr.tmv)
           IN  /\ ~ret.isNil
               /\ tr.saveReached
               /\ \A k \in DOMAIN own : Get(tr.saveAgainst, k) = own[k]
               /\ ret.out = DecodeBody(s.QuerySchemas[i].Saves, tr.saveAgainst, Functions).mv

\* C15 witness: for the input amount = 42 a query without a Filter whose Save
\* is out = amount returned the map out = 42 and no error.
C15_Witness ==
    \E i \in 1..Len(s.QuerySchemas) :
        /\ OwningQuery(i)
        /\ ev.res.Inputs = Amount(42)
        /\ ret.err = "" /\ ~ret.isNil
        /\ ~s.QuerySchemas[i].Filters.present
        /\ s.QuerySchemas[i].Saves = Body("out", Var("amount"))
        /\ ret.out = One("out", Num(42))

\* the nodes of query q a result is matched against, as <<identifier, Transform>>
NodesFor(q, res) ==
    IF res.Type = "GlobalEvent"
       THEN [j \in 1..Len(q.EventSchemas) |->
                <<OutputName(q.EventSchemas[j]), q.EventSchemas[j].Transforms>>]
       ELSE [j \in 1..Len(q.ContractSchemas) |->
                <<AddressString(Address(q.ContractSchemas[j])),
                  q.ContractSchemas[j].Transforms>>]

\* C3: unless a decode fails, the Transform of every node that matches the
\* result's identifier is decoded and merged, wherever the node stands in the
\* query and whether or not the other nodes declare a Transform.
C3_MatchingTransformIsEvaluated ==
    \A i \in 1..Len(s.QuerySchemas) :
        (OwningQuery(i) /\ ret.err = "") =>
            LET nodes == NodesFor(s.QuerySchemas[i], ev.res)
            IN  \A j \in 1..Len(nodes) :
                   (nodes[j][1] = ev.res.Identifier /\ nodes[j][2].present) =>
                       /\ j \in ev.trace[i].decoded
                       /\ DOMAIN nodes[j][2].attrs \subseteq DOMAIN ContextOf(s.QuerySchemas[i])

\* C4: evaluating a result for one query leaves the context of every query
\* of another name as it was: its variables and its function table.
C4_OtherQueriesShareNoState ==
    [][(s.loaded /\ ev'.called) =>
          \A i \in 1..Len(s.QuerySchemas) :
              s.QuerySchemas[i].Name # ev'.res.QueryName =>
                  /\ ctxs'[s.QuerySchemas[i].EvalContext] = ctxs[s.QuerySchemas[i].EvalContext]
                  /\ Functions' = Functions]_vars

\* what EvalSave returns for res on the schema as NewSchema loaded it
OnLoadedSchema(res) ==
    EvalSave(s.QuerySchemas, NewSchemaResult(file, time, Builtins).ctxs, Builtins, res)

\* C20: with the calls made one after another, what EvalSave returns for a
\* result is what it returns for that result on the schema as loaded:
\* nothing an earlier result left in the context is visible to the
\* Transform, Save or Filter of a later result.
C20_OutcomeIndependentOfEarlierResults ==
    ev.called =>
        /\ ret.isNil = OnLoadedSchema(ev.res).isNil
        /\ ret.out = OnLoadedSchema(ev.res).out
        /\ ret.err = OnLoadedSchema(ev.res).err

\* C10: for a result of a name no query bears, EvalSave returns no output
\* map (nil, as for a filtered-out result) and no error.  (The claim's other
\* half, that no context changes, is not what the code departs from.)
C10_UnknownQueryReturnsNil ==
    (ev.called /\ Owners = {}) => (ret.isNil /\ ret.err = "")

\* C11: when EvalSave returns an error because a Transform body failed to
\* decode, the query's context holds the variables derived from the result
\* and nothing merged by the Transforms of that result, also when an earlier
\* matching node's Transform had decoded.
C11_FailedTransformMergesNothing ==
    [][(s.loaded /\ ev'.called) =>
          \A i \in 1..Len(s.QuerySchemas) :
              (ev'.res.QueryName = s.QuerySchemas[i].Name /\ ev'.trace[i].transformErr) =>
                  ctxs'[s.QuerySchemas[i].EvalContext] =
                      MergeInto(ctxs[s.QuerySchemas[i].EvalContext],
                                GenerateContextVars(ev'.res))]_vars

----------------------------------------------------------------------------
(* EvalSave statement by statement, for calls that run at the same time.   *)
(* The caller serializes the calls for one query name, so there is at most *)
(* one call in flight per name; calls for different names interleave       *)
(* between the statements.  The calls write the maps of the contexts and   *)
(* the function table without synchronization: the interleavings below are *)
(* the outcomes in which the Go runtime does not stop the program on a     *)
(* concurrent map write.                                                   *)

\* the first query of the given name at index i or later, 0 if there is none
NextNamed(qs, name, i) ==
    IF \E j \in i..Len(qs) : qs[j].Name = name
       THEN CHOOSE j \in i..Len(qs) :
                qs[j].Name = name /\ \A k \in i..(j - 1) : qs[k].Name # name
       ELSE 0

\* where the loop of lines 176-199 goes on from query i: the body for the
\* next query of the name, or EvalFilter
LoopFrom(qs, name, i) ==
    IF NextNamed(qs, name, i) = 0
       THEN [pc |-> "filter", i |-> 0]
       ELSE [pc |-> "vars", i |-> NextNamed(qs, name, i)]

\* lines 174-175: a call for res enters EvalSave
Begin(n, results) ==
    /\ s.loaded
    /\ calls[n].pc \in {"idle", "done"}
    /\ \E res \in results :
          /\ res.QueryName = n
          /\ \E l \in {LoopFrom(s.QuerySchemas, n, 1)} :
                calls' = [calls EXCEPT ![n] =
                    [pc |-> l.pc, i |-> l.i, res |-> res, outputs |-> EmptyMap,
                     err |-> FALSE, isNil |-> FALSE,
                     transformed |-> FALSE, transformAgainst |-> EmptyMap,
                     transformFunctions |-> Builtins,
                     saved |-> FALSE, saveAgainst |-> EmptyMap, saveFunctions |-> Builtins,
                     filtered |-> FALSE, filterAgainst |-> EmptyMap,
                     filterFunctions |-> Builtins]]
    /\ UNCHANGED <<file, time, s, loadErr, ctxs, Functions, ret, ev, firsts>>

\* lines 182-184
StepVars(n) ==
    /\ calls[n].pc = "vars"
    /\ \E c \in {s.QuerySchemas[calls[n].i].EvalContext} :
          ctxs' = [ctxs EXCEPT ![c] = MergeInto(@, GenerateContextVars(calls[n].res))]
    /\ calls' = [calls EXCEPT ![n].pc = "funcs"]
    /\ UNCHANGED <<file, time, s, loadErr, Functions, ret, ev, firsts>>

\* lines 186-188
StepFuncs(n) ==
    /\ calls[n].pc = "funcs"
    /\ Functions' = MergeFunctions(Functions,
                        BuildChainFunctions(calls[n].res.Chain, calls[n].res.BlockNumber))
    /\ calls' = [calls EXCEPT ![n].pc = "transforms"]
    /\ UNCHANGED <<file, time, s, loadErr, ctxs, ret, ev, firsts>>

\* lines 190-192
StepTransforms(n) ==
    /\ calls[n].pc = "transforms"
    /\ \E c \in {s.QuerySchemas[calls[n].i].EvalContext} :
       \E t \in {EvalTransforms(s.QuerySchemas[calls[n].i], ctxs[c], Functions,
                                calls[n].res.Type, calls[n].res.Identifier)} :
          /\ ctxs' = [ctxs EXCEPT ![c] = t.variables]
          /\ calls' = [calls EXCEPT
                 ![n].pc = IF t.err THEN "done" ELSE "save",
                 ![n].err = t.err,
                 ![n].isNil = t.err,
                 ![n].transformed = t.err \/ t.decoded # {},
                 ![n].transformAgainst = ctxs[c],
                 ![n].transformFunctions = Functions]
    /\ UNCHANGED <<file, time, s, loadErr, Functions, ret, ev, firsts>>

\* lines 194-197, and the loop going on
StepSave(n) ==
    /\ calls[n].pc = "save"
    /\ \E c \in {s.QuerySchemas[calls[n].i].EvalContext} :
       \E d \in {DecodeBody(s.QuerySchemas[calls[n].i].Saves, ctxs[c], Functions)} :
       \E l \in {LoopFrom(s.QuerySchemas, n, calls[n].i + 1)} :
          calls' = [calls EXCEPT
              ![n].pc = IF d.err THEN "done" ELSE l.pc,
              ![n].i = l.i,
              ![n].err = d.err,
              ![n].isNil = d.err,
              ![n].outputs = IF d.err THEN EmptyMap ELSE d.mv,
              ![n].saved = TRUE,
              ![n].saveAgainst = ctxs[c],
              ![n].saveFunctions = Functions]
    /\ UNCHANGED <<file, time, s, loadErr, ctxs, Functions, ret, ev, firsts>>

\* lines 201-210
StepFilter(n) ==
    /\ calls[n].pc = "filter"
    /\ \E f \in {EvalFilter(s.QuerySchemas, ctxs, Functions, n)} :
          calls' = [calls EXCEPT
              ![n].pc = "done",
              ![n].err = f.err,
              ![n].isNil = f.err \/ ~f.ok,
              ![n].outputs = IF f.err \/ ~f.ok THEN EmptyMap ELSE @,
              ![n].filtered = f.decoded,
              ![n].filterAgainst = f.against,
              ![n].filterFunctions = Functions]
    /\ UNCHANGED <<file, time, s, loadErr, ctxs, Functions, ret, ev, firsts>>

\* a schema with the queries "qa" and "qb", each with a contract at address
\* 1, a Transform, a Save and a Filter; one result for each of the queries,
\* of different chains, blocks and inputs
ConcQuery(name, transforms) ==
    QueryBlock(name, <<ContractBlock(Lit(Str(1)), 1, 0, transforms)>>, << >>,
               Body("out", Var("doubled")),
               Filter(<<Lit(Bool(TRUE)), Gt("doubled", 50)>>))

ConcFiles ==
    {SchemaFile(NoScalars, EmptyBody, <<ConcQuery("qa", Doubling), ConcQuery("qb", tb)>>,
                NoLoop) : tb \in {Doubling, Seven}}

ConcResults ==
    {CallResult("qa", "Method", AddressString(1), 1, 1, 1, Amount(42), EmptyMap),
     CallResult("qb", "Method", AddressString(1), 1, 2, 2, Amount(43), EmptyMap)}

InitConc == InitWith(ConcFiles)

NextConc ==
    \/ NewSchema
    \/ \E n \in QueryNames :
          \/ Begin(n, ConcResults)
          \/ StepVars(n)
          \/ StepFuncs(n)
          \/ StepTransforms(n)
          \/ StepSave(n)
          \/ StepFilter(n)

SpecConc == InitConc /\ [][NextConc]_vars

\* the variables derived from res are in variables with the values of res,
\* and the chain functions of functions are those of res's chain and block
OwnValues(res, variables, functions) ==
    /\ \A k \in DOMAIN GenerateContextVars(res) :
          Get(variables, k) = GenerateContextVars(res)[k]
    /\ functions = MergeFunctions(Builtins,
                       BuildChainFunctions(res.Chain, res.BlockNumber))

\* C12: with one call in flight per query name and the calls of different
\* names interleaving, every call decodes its Transform, its Save and its
\* Filter against the variables and chain functions of its own result.
C12_PerQueryExclusionSuffices ==
    \A n \in QueryNames :
        calls[n].pc # "idle" =>
            /\ calls[n].transformed =>
                  OwnValues(calls[n].res, calls[n].transformAgainst,
                            calls[n].transformFunctions)
            /\ calls[n].saved =>
                  OwnValues(calls[n].res, calls[n].saveAgainst, calls[n].saveFunctions)
            /\ calls[n].filtered =>
                  OwnValues(calls[n].res, calls[n].filterAgainst,
                            calls[n].filterFunctions)

----------------------------------------------------------------------------
(* GenerateContextVars on its own: results of the three kinds whose raw    *)
(* inputs are named amount, owner or tx_index and whose raw output is      *)
(* named owner, each a number, a string, an address or a bool.             *)

GoValues == {GoNumber(42), GoString(5), GoAddress(2), GoBool(TRUE)}

\* the maps from some of the names to raw values
RawMaps(names) == UNION {[d -> GoValues] : d \in SUBSET names}

VarsResults ==
    {CallResult("qa", k[1], k[2], k[3], 1, 1, in, out) :
        k \in EvalKinds, in \in RawMaps({"amount", "owner", "tx_index"}),
        out \in RawMaps({"owner"})}

\* the call GenerateContextVars(cr)
GenerateContextVarsCall(results) ==
    /\ \E cr \in results :
          ret' = [op |-> "GenerateContextVars", arg |-> cr,
                  out |-> GenerateContextVars(cr),
                  err |-> "", isNil |-> FALSE, realtime |-> FALSE]
    /\ UNCHANGED <<file, time, s, loadErr, ctxs, Functions, ev, calls, firsts>>

InitVars == InitWith({SchemaFile(NoScalars, EmptyBody, << >>, NoLoop)})

NextVars == GenerateContextVarsCall(VarsResults)

SpecVars == InitVars /\ [][NextVars]_vars

BlockVars == {"contract_address", "blocknumber", "timestamp", "block_hash", "chain"}
TxVars == {"tx_hash", "event_name", "tx_index"}

\* C13 as claimed: the five block variables are produced for every result,
\* and tx_hash, event_name and tx_index are produced if and only if the
\* result is not a Method result.
C13_TxVarsIffNotMethod ==
    ret.op = "GenerateContextVars" =>
        /\ BlockVars \subseteq DOMAIN ret.out
        /\ \A k \in TxVars : (k \in DOMAIN ret.out) <=> (ret.arg.Type # "Method")

\* no raw input or output of the result bears the name of a transaction variable
NoRawTxVar(cr) == (DOMAIN cr.Inputs \cup DOMAIN cr.Outputs) \cap TxVars = {}

\* C13 as amended: the five block variables are produced for every result;
\* for a result none of whose raw inputs and outputs is named tx_hash,
\* event_name or tx_index, these three are produced if and only if the
\* result is not a Method result.
C13_TxVarsIffNotMethodUnlessRawName ==
    ret.op = "GenerateContextVars" =>
        /\ BlockVars \subseteq DOMAIN ret.out
        /\ NoRawTxVar(ret.arg) =>
              \A k \in TxVars : (k \in DOMAIN ret.out) <=> (ret.arg.Type # "Method")

\* C13 witness: a global event result with raw values gave the block
\* variables and the three transaction variables of its transaction.
C13_Witness ==
    /\ ret.op = "GenerateContextVars"
    /\ ret.arg.Type = "GlobalEvent"
    /\ NoRawTxVar(ret.arg)
    /\ DOMAIN ret.arg.Inputs = {"amount", "owner"}
    /\ BlockVars \subseteq DOMAIN ret.out
    /\ ret.out["tx_hash"] = Str(HashString(ret.arg.TxHash))
    /\ ret.out["event_name"] = Str(ret.arg.EventName)
    /\ ret.out["tx_index"] = Num(ret.arg.TxIndex)

\* the variable the claim gives a raw value: a string for a string, the
\* canonical hex string for an address, a number for any other value
IsCoerced(raw, v) ==
    IF raw[1] = "gostr" THEN v = Str(raw[2])
    ELSE IF raw[1] = "goaddr" THEN v = Str(AddressString(raw[2]))
    ELSE v[1] = "num"

\* C14: every raw input and every raw output gives a variable of its name,
\* a string for a string or an address and a number otherwise, inputs and
\* outputs alike (an input whose name an output also bears is left aside).
C14_RawValuesCoercedAlike ==
    ret.op = "GenerateContextVars" =>
        /\ \A k \in DOMAIN ret.arg.Outputs :
              k \in DOMAIN ret.out /\ IsCoerced(ret.arg.Outputs[k], ret.out[k])
        /\ \A k \in DOMAIN ret.arg.Inputs \ DOMAIN ret.arg.Outputs :
              k \in DOMAIN ret.out /\ IsCoerced(ret.arg.Inputs[k], ret.out[k])

----------------------------------------------------------------------------
(* Loads that fail: files that cannot be read or parsed, whose scalars or  *)
(* variables do not decode, whose queries or loop items refer to variables *)
(* that do not exist, whose loop template does not decode for an item, or  *)
(* whose ABI files cannot be read or parsed.                               *)

\* a contract block with the given address expression and ABI file
FailContracts ==
    {[ContractBlock(a, 1, 0, NoBody) EXCEPT !.AbiOk = ok] :
        a \in {Lit(Str(1)), Var("g"), Var("item")}, ok \in BOOLEAN}

FailQueryLists ==
    {<< >>}
    \cup {<<QueryBlock("qa", <<c>>, << >>, EmptyBody, NoFilter)>> : c \in FailContracts}
    \cup {<<QueryBlock("qa", << >>, <<[EventBlock(21, NoBody) EXCEPT !.AbiOk = ok]>>,
                       EmptyBody, NoFilter)>> : ok \in BOOLEAN}

FailLoops ==
    {NoLoop} \cup
    {[present |-> TRUE, Items |-> items, Queries |-> template] :
        items \in {<<Lit(Str(1))>>, <<Lit(Str(1)), Lit(Num(5))>>, <<Var("undefined")>>},
        template \in FailQueryLists \ {<< >>}}

FailFiles ==
    {[SchemaFile(NoScalars, variables, qs, loop)
         EXCEPT !.readable = fl[1], !.syntaxOk = fl[2], !.scalarsOk = fl[3]] :
        variables \in {GlobalVariables, Body("g", Var("undefined"))},
        qs \in FailQueryLists, loop \in FailLoops,
        fl \in {<<TRUE, TRUE, TRUE>>, <<FALSE, TRUE, TRUE>>, <<TRUE, FALSE, TRUE>>,
                <<TRUE, TRUE, FALSE>>}}

InitFail == InitWith(FailFiles)

NextFail == NewSchema

SpecFail == InitFail /\ [][NextFail]_vars

\* the load steps that fail for the file, each taken by itself
GlobalContext == MergeInto(InitialContext(time), One("g", Str(2)))

AddressFails(c, variables) == EvalExpr(c.Address_, variables, Functions)[1] # "str"

VariablesFail ==
    \E k \in DOMAIN file.Variables.attrs :
        EvalExpr(file.Variables.attrs[k], InitialContext(time), Functions) = DecodeErr

TopLevelFails ==
    \/ \E i \in 1..Len(file.Queries) : \E j \in 1..Len(file.Queries[i].Contracts) :
          AddressFails(file.Queries[i].Contracts[j], GlobalContext)
    \/ \E k \in 1..Len(file.Loop.Items) :
          EvalExpr(file.Loop.Items[k], GlobalContext, Functions) = DecodeErr

IterationFails ==
    \E k \in 1..Len(file.Loop.Items) :
        \E i \in 1..Len(file.Loop.Queries) :
            \E j \in 1..Len(file.Loop.Queries[i].Contracts) :
                AddressFails(file.Loop.Queries[i].Contracts[j],
                             One("item", EvalExpr(file.Loop.Items[k], GlobalContext, Functions)))

AbiFails(blocks) ==
    \E i \in 1..Len(blocks) :
        \/ \E j \in 1..Len(blocks[i].Contracts) : ~blocks[i].Contracts[j].AbiOk
        \/ \E j \in 1..Len(blocks[i].Events) : ~blocks[i].Events[j].AbiOk

DescriptorFails ==
    \/ AbiFails(file.Queries)
    \/ Len(file.Loop.Items) > 0 /\ AbiFails(file.Loop.Queries)

SomeStepFails ==
    \/ ~file.readable
    \/ ~file.syntaxOk
    \/ ~file.scalarsOk
    \/ VariablesFail
    \/ TopLevelFails
    \/ IterationFails
    \/ DescriptorFails

\* C18: when reading, parsing, decoding the scalars and variables, decoding
\* the top level, decoding a loop iteration or reading an ABI fails,
\* NewSchema returns an error and nil, never a schema filled in part; and
\* whenever it returns an error it returns nil.
C18_FailedLoadReturnsNil ==
    loadErr # "none" =>
        /\ SomeStepFails => loadErr # ""
        /\ loadErr # "" => s = NilSchema

\* C18 witness: the direct query and the loop's first iteration decoded, the
\* second iteration did not, and NewSchema returned an error and nil.
C18_Witness ==
    /\ loadErr = "decode"
    /\ s = NilSchema
    /\ file.readable /\ file.syntaxOk /\ file.scalarsOk
    /\ ~VariablesFail /\ ~TopLevelFails /\ ~DescriptorFails
    /\ Len(file.Queries) = 1
    /\ Len(file.Loop.Items) = 2
    /\ IterationFails

----------------------------------------------------------------------------
(* The schema loaded again: a process loads the file a second time, at a   *)
(* later reading of the clock, and evaluates results of several chains and *)
(* blocks.  Of each copy the first EvalSave call is kept.                  *)

MaxTicks == 1

\* time.Now() moves on between two loads
Tick ==
    /\ time < 1000 + MaxTicks
    /\ time' = time + 1
    /\ UNCHANGED <<file, s, loadErr, ctxs, Functions, ret, ev, calls, firsts>>

\* a later load whose schema shares the context of the schema before it
NewSchemaAgainSharedContext ==
    /\ s.loaded
    /\ \E r \in {NewSchemaResult(file, time, Functions)} :
           /\ s' = r.s
           /\ loadErr' = r.err
    /\ firsts' = [this |-> NoFirst,
                  prev |-> IF firsts.this.called THEN firsts.this ELSE firsts.prev]
    /\ UNCHANGED <<file, time, ctxs, Functions, ret, ev, calls>>

\* a later call of NewSchema on the same file: s now refers to the new copy
NewSchemaAgain ==
    /\ s.loaded
    /\ \E r \in {NewSchemaResult(file, time, Functions)} :
           /\ s' = r.s
           /\ loadErr' = r.err
           /\ ctxs' = r.ctxs
    /\ firsts' = [this |-> NoFirst,
                  prev |-> IF firsts.this.called THEN firsts.this ELSE firsts.prev]
    /\ UNCHANGED <<file, time, Functions, ret, ev, calls>>

\* the call s.EvalSave(provider, res), kept if it is the first on this copy
EvalSaveFirst(results) ==
    /\ EvalSaveDo(results)
    /\ firsts' = IF firsts.this.called THEN firsts
                 ELSE [firsts EXCEPT !.this =
                          [called |-> TRUE, res |-> ev'.res, isNil |-> ret'.isNil,
                           out |-> ret'.out, err |-> ret'.err,
                           now |-> Get(ctxs[s.EvalContext], "now")]]

FreshNodes ==
    {<<ContractBlock(Lit(Str(1)), 1, 1, tr)>> : tr \in {NoBody, Body("doubled", Bal)}}

FreshSaves ==
    {Body("out", Bal), Body("out", Var("now")), Body("out", Var("amount")),
     Body("out", Var("doubled"))}

FreshFilters == {NoFilter, Filter(<<BalGt(101)>>)}

FreshFiles ==
    {SchemaFile(NoScalars, EmptyBody, <<QueryBlock("qa", n, << >>, sv, fl)>>, NoLoop) :
        n \in FreshNodes, sv \in FreshSaves, fl \in FreshFilters}

FreshResults ==
    {CallResult("qa", "Method", AddressString(1), 1, cb[1], cb[2], in, EmptyMap) :
        cb \in {<<1, 1>>, <<1, 2>>, <<2, 1>>}, in \in {EmptyMap, Amount(42)}}

InitFresh == InitWith(FreshFiles)

NextFresh == NewSchema \/ Tick \/ NewSchemaAgain \/ EvalSaveFirst(FreshResults)

SpecFresh == InitFresh /\ [][NextFresh]_vars

\* what BuildChainFunctions binds a chain function to for this result
OwnBinding(res) == <<"chain", res.Chain, res.BlockNumber>>

\* C19: after EvalSave of a result of a known query the chain functions are
\* registered for the chain and block of that result, and what the
\* Transform, the Save and the Filter read through them in that call is the
\* value at that chain and block, whatever an earlier evaluation had bound.
C19_ChainFunctionsBoundToResult ==
    \A i \in 1..Len(s.QuerySchemas) :
        OwningQuery(i) =>
            LET q == s.QuerySchemas[i]
                tr == ev.trace[i]
                nodes == NodesFor(q, ev.res)
                bal == BalanceAt(OwnBinding(ev.res))
            IN  /\ Functions["balance"] = OwnBinding(ev.res)
                /\ Functions["token_balance"] = OwnBinding(ev.res)
                /\ \A j \in tr.decoded :
                       nodes[j][2] = Body("doubled", Bal) => Get(tr.tmv, "doubled") = bal
                /\ (tr.saveReached /\ q.Saves = Body("out", Bal) /\ ~ret.isNil)
                       => ret.out = One("out", bal)
                /\ (ev.filter.decoded /\ q.Filters = Filter(<<BalGt(101)>>))
                       => ev.filter.filters = <<bal[2] > 101>>

\* a result of chain 1, block 2 passes Transform, Save and Filter, all three
\* reading the balance, on a schema whose first result was of another block
C19_Witness ==
    \E i \in 1..Len(s.QuerySchemas) :
        /\ OwningQuery(i)
        /\ firsts.this.called
        /\ OwnBinding(firsts.this.res) # OwnBinding(ev.res)
        /\ OwnBinding(ev.res) = <<"chain", 1, 2>>
        /\ 1 \in ev.trace[i].decoded
        /\ Get(ev.trace[i].tmv, "doubled") = Num(102)
        /\ s.QuerySchemas[i].Saves = Body("out", Bal)
        /\ ev.filter.decoded
        /\ ~ret.isNil
        /\ ret.out = One("out", Num(102))

\* the first calls on this copy and on the copy before it were of one result
SameResultOnBothCopies ==
    /\ firsts.this.called
    /\ firsts.prev.called
    /\ firsts.this.res = firsts.prev.res

\* C16 as stated: the same result evaluated once on each of two freshly
\* loaded copies of the schema gives the same output.
C16_FreshCopiesAgree ==
    SameResultOnBothCopies =>
        /\ firsts.this.isNil = firsts.prev.isNil
        /\ firsts.this.out = firsts.prev.out
        /\ firsts.this.err = firsts.prev.err

\* C16: the same result evaluated once on each of two freshly loaded copies
\* of the schema gives the same output, if the two loads produced the same
\* context: the same now (the files here declare no variables).
C16_FreshCopiesOfOneContextAgree ==
    (SameResultOnBothCopies /\ firsts.this.now = firsts.prev.now) =>
        /\ firsts.this.isNil = firsts.prev.isNil
        /\ firsts.this.out = firsts.prev.out
        /\ firsts.this.err = firsts.prev.err

\* a result carrying amount = 42 was saved on both copies, loaded at the
\* same reading of the clock, with results of other blocks in between
C16_Witness ==
    /\ SameResultOnBothCopies
    /\ firsts.this.now = firsts.prev.now
    /\ firsts.this.res.Inputs = Amount(42)
    /\ ~firsts.this.isNil
    /\ firsts.this.out = One("out", Num(42))
    /\ ev.called /\ ev.res # firsts.this.res
====
